---------------------------- MODULE Spec2Model ----------------------------
(***************************************************************************)
(* A model of functions/diagnostics.py (ClimWIP): the unit normalizer      *)
(* standardize_units, the basic diagnostic pipeline                        *)
(* calculate_basic_diagnostic with its on-disk result cache, and the       *)
(* derived diagnostic dispatcher calculate_diagnostic.                     *)
(*                                                                         *)
(* Conventions.  A Python string is a sequence of one-character strings,   *)
(* so that replace, basename, split, join, lower and format are computed   *)
(* character by character.  A Python value that may be None is a sequence  *)
(* of length 0 (None) or 1.  A missing number (NaN) is the empty sequence, *)
(* a number x is <<x>>; numbers are fixed-point, in hundredths.            *)
(***************************************************************************)
EXTENDS Integers, Sequences, FiniteSets, TLC

\* fs     : the file system, a function from the paths of the files to their Datasets
\* madeBy : for each file written, the request that produced it (a history variable)
\* last   : the last call made and its outcome
\* ncalls : the number of calls made
\* probe  : the argument and the result of a function applied on its own
VARIABLES fs, madeBy, last, ncalls, probe

vars == <<fs, madeBy, last, ncalls, probe>>

None == << >>
Some(x) == <<x>>
IsNone(o) == o = << >>
Get(o) == o[1]

\* the element of a one-element set.  The({F(x) : x \in {e}}) is F(e) with the
\* value of e computed once and then named x, as an assignment x = e does
The(S) == CHOOSE x \in S : x = x

-----------------------------------------------------------------------------
(* Bounds of the model.                                                     *)

\* calls made in one behaviour
MaxCalls == 2
\* names in a list of regions
MaxNames == 3
\* rows and columns of the model's lat/lon grid (the program's is 72 x 144)
NLat == 2
NLon == 3

-----------------------------------------------------------------------------
(* Python strings.                                                          *)

UpperCase == <<"A","B","C","D","E","F","G","H","I","J","K","L","M",
               "N","O","P","Q","R","S","T","U","V","W","X","Y","Z">>
LowerCase == <<"a","b","c","d","e","f","g","h","i","j","k","l","m",
               "n","o","p","q","r","s","t","u","v","w","x","y","z">>

\* one character of str.lower()
LowerChar(c) ==
    IF \E i \in DOMAIN UpperCase : UpperCase[i] = c
    THEN LowerCase[CHOOSE i \in DOMAIN UpperCase : UpperCase[i] = c]
    ELSE c

\* str.lower()
Lower(s) == [i \in DOMAIN s |-> LowerChar(s[i])]

\* s.startswith(p)
StartsWith(s, p) == Len(s) >= Len(p) /\ SubSeq(s, 1, Len(p)) = p

\* s.replace(old, new), old not empty: every non-overlapping occurrence,
\* scanning from the left
RECURSIVE Replace(_, _, _)
Replace(s, old, new) ==
    IF Len(s) < Len(old) THEN s
    ELSE IF StartsWith(s, old)
         THEN new \o Replace(SubSeq(s, Len(old) + 1, Len(s)), old, new)
         ELSE <<s[1]>> \o Replace(Tail(s), old, new)

\* index of the last "/" of p, 0 when there is none
LastSlash(p) ==
    IF \E i \in DOMAIN p : p[i] = "/"
    THEN CHOOSE i \in DOMAIN p : p[i] = "/" /\ \A j \in DOMAIN p : p[j] = "/" => j <= i
    ELSE 0

\* s.rstrip('/')
RECURSIVE RStripSlash(_)
RStripSlash(s) ==
    IF s # << >> /\ s[Len(s)] = "/" THEN RStripSlash(SubSeq(s, 1, Len(s) - 1)) ELSE s

\* os.path.split(p): <<head, tail>>; the head loses its trailing slashes
\* unless it consists of slashes only
PathSplit(p) ==
    LET i == LastSlash(p)
        head == SubSeq(p, 1, i)
        tail == SubSeq(p, i + 1, Len(p))
    IN  <<IF RStripSlash(head) = << >> THEN head ELSE RStripSlash(head), tail>>

\* os.path.basename(p)
Basename(p) == PathSplit(p)[2]

\* os.path.join(a, b)
PathJoin(a, b) ==
    IF b # << >> /\ b[1] = "/" THEN b
    ELSE IF a = << >> \/ a[Len(a)] = "/" THEN a \o b
    ELSE a \o <<"/">> \o b

\* sep.join(parts)
RECURSIVE Join(_, _)
Join(sep, parts) ==
    IF parts = << >> THEN << >>
    ELSE IF Len(parts) = 1 THEN parts[1]
    ELSE parts[1] \o sep \o Join(sep, Tail(parts))

Digits == <<"0","1","2","3","4","5","6","7","8","9">>

\* str(n) for a natural number n
RECURSIVE Str(_)
Str(n) == IF n < 10 THEN <<Digits[n + 1]>> ELSE Str(n \div 10) \o <<Digits[(n % 10) + 1]>>

\* str(None)
StrNone == <<"N","o","n","e">>

-----------------------------------------------------------------------------
(* String literals of the program.                                          *)

pr == <<"p","r">>
tas == <<"t","a","s">>
tasmax == <<"t","a","s","m","a","x">>
tasmin == <<"t","a","s","m","i","n">>
tos == <<"t","o","s">>
psl == <<"p","s","l">>
rsds == <<"r","s","d","s">>
rsus == <<"r","s","u","s">>
rlds == <<"r","l","d","s">>
rlus == <<"r","l","u","s">>
rnet == <<"r","n","e","t">>
clt == <<"c","l","t">>
u_kg_m2_s1 == <<"k","g"," ","m","-","2"," ","s","-","1">>
u_mm == <<"m","m">>
u_mm_day == <<"m","m","/","d","a","y">>
u_degC == <<"d","e","g","C">>
u_K == <<"K">>
u_pa == <<"p","a">>
u_hPa == <<"h","P","a">>
u_W_m2 == <<"W"," ","m","*","*","-","2">>
u_W_m_2 == <<"W"," ","m","-","2">>
u_one == <<"1">>
u_year == <<" ","y","e","a","r","*","*","-","1">>
CLIM == <<"C","L","I","M">>
STD == <<"S","T","D">>
TREND == <<"T","R","E","N","D">>
CYC == <<"C","Y","C">>
CORR == <<"C","O","R","R">>
JJA == <<"J","J","A">>
SON == <<"S","O","N">>
DJF == <<"D","J","F">>
MAM == <<"M","A","M">>
ANN == <<"A","N","N">>
GLOBAL == <<"G","L","O","B","A","L">>
dot_nc == <<".","n","c">>

\* the aliases of degC accepted by standardize_units
degC_aliases == {<<"d","e","g","c">>,
                 <<"d","e","g","_","c">>,
                 <<"c","e","l","s","i","u","s">>,
                 <<"d","e","g","r","e","e","c">>,
                 <<"d","e","g","r","e","e","_","c">>,
                 <<"d","e","g","r","e","e","_","c","e","l","s","i","u","s">>}

-----------------------------------------------------------------------------
(* Labeled arrays.  A DataArray is a record                                 *)
(*   attrs : the attribute dictionary, a function from attribute names,     *)
(*   lat, lon : the coordinate values, in hundredths of a degree,           *)
(*   time : the time axis, a sequence of [year, month],                     *)
(*   box  : the index ranges <<lat0, lat1, lon0, lon1>> of the extent,      *)
(*   val  : for each cell <<i, j>> the series of its values along time.     *)

Cells == (1..NLat) \X (1..NLon)

NaN == << >>
IsNaN(v) == v = << >>

\* the attribute dictionary without entries
NoAttrs == [k \in {} |-> << >>]

\* d[k] = v on a dictionary
SetItem(d, k, v) == [x \in DOMAIN d \cup {k} |-> IF x = k THEN v ELSE d[x]]

\* the cells inside the extent of da
InBox(da, c) ==
    /\ da.box[1] <= c[1] /\ c[1] <= da.box[2]
    /\ da.box[3] <= c[2] /\ c[2] <= da.box[4]

\* da.data *= k and da.data -= k, elementwise, NaN staying NaN
TimesData(da, k) ==
    [da EXCEPT !.val = [c \in Cells |->
        [t \in DOMAIN da.val[c] |->
            IF IsNaN(da.val[c][t]) THEN NaN ELSE <<da.val[c][t][1] * k>>]]]
MinusData(da, k) ==
    [da EXCEPT !.val = [c \in Cells |->
        [t \in DOMAIN da.val[c] |->
            IF IsNaN(da.val[c][t]) THEN NaN ELSE <<da.val[c][t][1] - k>>]]]

\* da.where(mask): cells outside the mask become missing
Where(da, mask) ==
    [da EXCEPT !.val = [c \in Cells |->
        [t \in DOMAIN da.val[c] |-> IF c \in mask THEN da.val[c][t] ELSE NaN]]]

-----------------------------------------------------------------------------
(* standardize_units: the result is [exc, ret, warned]: the exception       *)
(* raised ("" for none), the value returned (None or a DataArray) and       *)
(* whether a warning was logged.                                            *)

Returned(da) == [exc |-> "", ret |-> Some(da), warned |-> FALSE]
Raised(e) == [exc |-> e, ret |-> None, warned |-> FALSE]

WithUnits(da, newunit) == [da EXCEPT !.attrs = SetItem(da.attrs, "units", newunit)]

\* the pressure branch's test of the hectopascal alias: unit.lower() == 'hPa'
IsHectopascal(unit) == Lower(unit) = u_hPa

standardize_units(da, varn) ==
    IF "units" \notin DOMAIN da.attrs
    THEN [exc |-> "", ret |-> None, warned |-> TRUE]
    ELSE
    LET unit == da.attrs["units"] IN
    IF varn = pr THEN
        IF unit = u_kg_m2_s1 THEN Returned(WithUnits(TimesData(da, 24 * 60 * 60), u_mm_day))
        ELSE IF unit = u_mm THEN Returned(WithUnits(da, u_mm_day))
        ELSE IF unit = u_mm_day THEN Returned(da)
        ELSE Raised("ValueError")
    ELSE IF varn \in {tas, tasmax, tasmin, tos} THEN
        IF unit = u_degC THEN Returned(da)
        \* 273.15, in hundredths
        ELSE IF unit = u_K THEN Returned(WithUnits(MinusData(da, 27315), u_degC))
        ELSE IF Lower(unit) \in degC_aliases THEN Returned(WithUnits(da, u_degC))
        ELSE Raised("ValueError")
    ELSE IF varn \in {psl} THEN
        IF Lower(unit) = u_pa THEN Returned(da)
        ELSE IF IsHectopascal(unit) THEN Returned(WithUnits(TimesData(da, 100), u_pa))
        ELSE Raised("ValueError")
    ELSE IF varn \in {rsds, rsus, rlds, rlus, rnet} THEN
        IF unit = u_W_m2 THEN Returned(da)
        ELSE IF unit = u_W_m_2 THEN Returned(WithUnits(da, u_W_m2))
        ELSE Raised("ValueError")
    ELSE [exc |-> "", ret |-> Some(da), warned |-> TRUE]

-----------------------------------------------------------------------------
(* The fixed grid and the collaborators: the SREX region catalog, the land  *)
(* mask, the region files of REGION_DIR, salem's roi/subset and cdo's       *)
(* bilinear remap.  Coordinates are in hundredths of a degree.              *)

\* np.arange(-88.75, 90., 2.5) and np.arange(-178.75, 180., 2.5), cut to the
\* model's grid size
ExpectedLat == [i \in 1..NLat |-> (-8875) + 250 * (i - 1)]
ExpectedLon == [j \in 1..NLon |-> (-17875) + 250 * (j - 1)]

NEU == <<"N","E","U">>
CEU == <<"C","E","U">>
MED == <<"M","E","D">>
N_Europe == <<"N","."," ","E","u","r","o","p","e">>

\* regionmask.defined_regions.srex.abbrevs
srex_abbrevs == {NEU, CEU, MED}

\* regionmask.defined_regions.srex.region_ids: abbreviations and names to numbers
srex_region_ids == (NEU :> 11) @@ (CEU :> 12) @@ (MED :> 13) @@ (N_Europe :> 11)

\* regionmask.defined_regions.srex.mask(da): the number of the region a cell
\* lies in, 0 (no region) elsewhere.  On the model's grid the first column is
\* NEU, the second CEU, and MED covers no cell.
srex_mask(c) == IF c[2] = 1 THEN 11 ELSE IF c[2] = 2 THEN 12 ELSE 0

\* the set of the numbers in a sequence, ascending (np.unique(...).tolist())
RECURSIVE SortedSeq(_)
SortedSeq(S) ==
    IF S = {} THEN << >>
    ELSE LET m == CHOOSE x \in S : \A y \in S : x <= y
         IN  <<m>> \o SortedSeq(S \ {m})

\* regionmask's Regions.map_keys(region) for a list: the numbers of the named
\* regions, made unique; None stands for its KeyError
map_keys(region) ==
    IF \E i \in DOMAIN region : region[i] \notin DOMAIN srex_region_ids
    THEN None
    ELSE Some(SortedSeq({srex_region_ids[region[i]] : i \in DOMAIN region}))

\* regionmask.defined_regions.natural_earth.land_110.mask(da) == 0: the land
\* cells.  On the model's grid the first row of the first two columns is land.
land_110(c) == c[1] = 1 /\ c[2] <= 2

landbox == <<"l","a","n","d","b","o","x">>
seabox == <<"s","e","a","b","o","x">>
tri == <<"t","r","i">>
far == <<"f","a","r">>

\* the region files of REGION_DIR: rows of <<lon, lat>>
RegionFiles ==
    (landbox :> << <<-17900, -8900>>, <<-17900, -8600>>, <<-17600, -8600>>, <<-17600, -8900>> >>)
    @@ (seabox :> << <<-17400, -8900>>, <<-17400, -8600>>, <<-17350, -8600>>, <<-17350, -8900>> >>)
    @@ (tri :> << <<-17900, -8900>>, <<-17900, -8600>>, <<-17600, -8600>> >>)
    @@ (far :> << <<-17900, -8900>>, <<-17900, -8600>>, <<18100, -8600>>, <<18100, -8900>> >>)

Min(S) == CHOOSE x \in S : \A y \in S : x <= y
Max(S) == CHOOSE x \in S : \A y \in S : x >= y
Abs(x) == IF x < 0 THEN -x ELSE x

\* the index of the coordinate nearest to v (salem's transform, nearest=True)
Nearest(coords, v) ==
    CHOOSE i \in DOMAIN coords :
        \A k \in DOMAIN coords :
            \/ Abs(coords[i] - v) < Abs(coords[k] - v)
            \/ Abs(coords[i] - v) = Abs(coords[k] - v) /\ i <= k

\* the index box <<lat0, lat1, lon0, lon1>> of the corners on da's grid
CornerBox(da, lonmin, latmin, lonmax, latmax) ==
    LET a == Nearest(da.lat, latmin)
        b == Nearest(da.lat, latmax)
        c == Nearest(da.lon, lonmin)
        d == Nearest(da.lon, lonmax)
    IN  <<Min({a, b}), Max({a, b}), Min({c, d}), Max({c, d})>>

CellsOfBox(b) == {c \in Cells : b[1] <= c[1] /\ c[1] <= b[2] /\ b[3] <= c[2] /\ c[2] <= b[4]}

\* da.salem.subset(..., margin=1): the extent shrinks to the box plus one
\* cell on every side, cut at the grid's border
Subset(da, b) ==
    [da EXCEPT !.box = <<Max({b[1] - 1, da.box[1]}), Min({b[2] + 1, da.box[2]}),
                         Max({b[3] - 1, da.box[3]}), Min({b[4] + 1, da.box[4]})>>]

\* the smallest index box holding the cells of a mask (the grid's when empty)
BoxOfMask(da, mask) ==
    IF mask = {} THEN da.box
    ELSE <<Min({c[1] : c \in mask}), Max({c[1] : c \in mask}),
           Min({c[2] : c \in mask}), Max({c[2] : c \in mask})>>

\* cdo.remapbil onto the fixed grid: the field on the expected coordinates
Remapbil(ds) ==
    [ds EXCEPT !.da.lat = ExpectedLat, !.da.lon = ExpectedLon]

-----------------------------------------------------------------------------
(* The selection steps of calculate_basic_diagnostic.  Each takes the       *)
(* DataArray and yields [exc, da]: the exception raised ("" for none) and   *)
(* the DataArray after the step.                                            *)

Fine(da) == [exc |-> "", da |-> da]
Fail(e, da) == [exc |-> e, da |-> da]

\* the timesteps with the given indices, in order
TakeTimes(da, idx) ==
    The({[da EXCEPT !.time = [k \in DOMAIN ix |-> da.time[ix[k]]],
                    !.val = [c \in Cells |-> [k \in DOMAIN ix |-> da.val[c][ix[k]]]]]
         : ix \in {SortedSeq(idx)}})

\* the assertions on the coordinates
check_grid(da) ==
    IF da.lat = ExpectedLat /\ da.lon = ExpectedLon THEN Fine(da)
    ELSE Fail("AssertionError", da)

\* da.sel(time=slice(str(time_period[0]), str(time_period[1]))), on years
select_time_period(da, time_period) ==
    IF IsNone(time_period) THEN Fine(da)
    ELSE Fine(TakeTimes(da, {i \in DOMAIN da.time :
                  /\ Get(time_period)[1] <= da.time[i].year
                  /\ da.time[i].year <= Get(time_period)[2]}))

\* the value of da['time.season'] for a month
SeasonOf(month) ==
    IF month \in {12, 1, 2} THEN DJF
    ELSE IF month \in {3, 4, 5} THEN MAM
    ELSE IF month \in {6, 7, 8} THEN JJA
    ELSE SON

select_season(da, season) ==
    IF season \in {Some(JJA), Some(SON), Some(DJF), Some(MAM)}
    THEN Fine(TakeTimes(da, {i \in DOMAIN da.time : SeasonOf(da.time[i].month) = Get(season)}))
    ELSE IF IsNone(season) \/ season = Some(ANN) THEN Fine(da)
    ELSE Fail("NotImplementedError", da)

\* faulty variant of srex_cells: only the first key's mask is used
srex_cells_of_first_key(keys) ==
    {c \in Cells : keys # << >> /\ srex_mask(c) = keys[1]}

\* sum(masks) == 1 over the keys: the cells lying in exactly one of them
srex_cells(keys) ==
    {c \in Cells : Cardinality({i \in DOMAIN keys : srex_mask(c) = keys[i]}) = 1}

\* np.all(np.isnan(da.isel(time=0))), over the extent
FirstSliceAllNaN(da) == \A c \in Cells : InBox(da, c) => IsNaN(da.val[c][1])

\* the check after the region masks
check_not_all_masked(da) ==
    IF da.time = << >> THEN Fail("IndexError", da)
    ELSE IF FirstSliceAllNaN(da) THEN Fail("ValueError", da)
    ELSE Fine(da)

\* a region given by a file of REGION_DIR
select_region_file(da, name) ==
    IF name \notin DOMAIN RegionFiles THEN Fail("ValueError", da)
    ELSE
    LET mask == RegionFiles[name] IN
    IF Len(mask) # 4 \/ \E i \in DOMAIN mask : Len(mask[i]) # 2 THEN Fail("ValueError", da)
    ELSE
    LET lonmin == Min({mask[i][1] : i \in DOMAIN mask})
        lonmax == Max({mask[i][1] : i \in DOMAIN mask})
        latmin == Min({mask[i][2] : i \in DOMAIN mask})
        latmax == Max({mask[i][2] : i \in DOMAIN mask})
    IN  IF lonmax > 18000 \/ lonmin < -18000 \/ latmax > 9000 \/ latmin < -9000
        THEN Fail("ValueError", da)
        ELSE The({Fine(Subset(Where(da, CellsOfBox(b)), b))
                  : b \in {CornerBox(da, lonmin, latmin, lonmax, latmax)}})

\* a region given by SREX names
select_region_srex(da, names) ==
    The({IF IsNone(keys) THEN Fail("KeyError", da)
         ELSE The({Fine(Subset(Where(da, mask), BoxOfMask(da, mask)))
                   : mask \in {srex_cells(Get(keys))}})
         : keys \in {map_keys(names)}})

\* region is [isstr, names]: a string (names has one entry) or a list of strings
select_region(da, region) ==
    IF region.isstr /\ region.names[1] = GLOBAL THEN Fine(da)
    ELSE The({IF r.exc # "" THEN r ELSE check_not_all_masked(r.da)
              : r \in {IF region.isstr /\ region.names[1] \notin srex_abbrevs
                       THEN select_region_file(da, region.names[1])
                       ELSE select_region_srex(da, region.names)}})

\* da.where(sea_mask): only the land cells stay
select_ocean_mask(da, mask_ocean) ==
    IF mask_ocean THEN Fine(Where(da, {c \in Cells : land_110(c)})) ELSE Fine(da)

\* line 254-255: da = standardize_units(da, varn); attrs = da.attrs
normalize_units(da, varn) ==
    The({IF r.exc # "" THEN Fail(r.exc, da)
         ELSE IF IsNone(r.ret) THEN Fail("AttributeError", da)
         ELSE Fine(Get(r.ret))
         : r \in {standardize_units(da, varn)}})

-----------------------------------------------------------------------------
(* The temporal reduction.  A statistic over time is kept symbolically: the *)
(* result's stat names the statistic and val[c] holds the series it is      *)
(* taken of, so the result's value at c is stat(val[c]); a reduction that   *)
(* does not skip missing values turns a series with a missing value into    *)
(* an all-missing one.                                                      *)

AllMissing(s) == [t \in DOMAIN s |-> NaN]

\* skipna=False: one missing value makes the cell's result missing
Strict(da) ==
    [da EXCEPT !.val = [c \in Cells |->
        IF \E t \in DOMAIN da.val[c] : IsNaN(da.val[c][t])
        THEN AllMissing(da.val[c]) ELSE da.val[c]]]

\* lines 263-283; the result is [da, attrs]
reduce_time(da, attrs, time_aggregation) ==
    IF time_aggregation = Some(CLIM)
    THEN [da |-> [Strict(da) EXCEPT !.stat = "CLIM"], attrs |-> attrs]
    ELSE IF time_aggregation = Some(STD)
    THEN [da |-> [Strict(da) EXCEPT !.stat = "STD"], attrs |-> attrs]
    ELSE IF time_aggregation = Some(TREND)
    THEN [da |-> [Strict(da) EXCEPT !.stat = "TREND"],
          attrs |-> SetItem(attrs, "units", attrs["units"] \o u_year)]
    ELSE IF time_aggregation = Some(CYC)
    THEN [da |-> [da EXCEPT !.stat = "CYC"], attrs |-> attrs]
    ELSE IF IsNone(time_aggregation) \/ time_aggregation = Some(CORR)
    THEN [da |-> da, attrs |-> attrs]
    \* line 283 builds a NotImplementedError and does not raise it
    ELSE [da |-> da, attrs |-> attrs]

-----------------------------------------------------------------------------
(* calculate_basic_diagnostic.  The file system fsys is a function from     *)
(* paths to Datasets [name, da] (one variable per file).  The arguments are *)
(* a record a; the result is                                                *)
(*   fs    : the file system afterwards,                                    *)
(*   exc   : the exception that ended the call ("" for a normal return),    *)
(*   ret   : the returned value (None after an exception),                  *)
(*   trace : the steps begun, in order,                                     *)
(*   wrote : the paths written, in order.                                   *)

\* a placeholder where no DataArray was read
NoData ==
    [attrs |-> NoAttrs, lat |-> << >>, lon |-> << >>, time |-> << >>,
     box |-> <<1, 0, 1, 0>>, val |-> [c \in Cells |-> << >>], stat |-> "", enc |-> ""]

\* a step of the pipeline with outcome r: not begun once an exception was raised
Step(ctx, name, r) ==
    IF ctx.exc # "" THEN ctx
    ELSE The({[exc |-> x.exc, da |-> x.da, trace |-> Append(ctx.trace, name)] : x \in {r}})

\* lines 194-200: the optional regridding and the opening of the variable
open_input(fsys, a) ==
    LET t0 == IF a.regrid THEN <<"regrid">> ELSE << >> IN
    IF a.regrid /\ a.infile \notin DOMAIN fsys
    THEN [exc |-> "CDOException", da |-> NoData, trace |-> t0]
    ELSE IF a.infile \notin DOMAIN fsys
    THEN [exc |-> "FileNotFoundError", da |-> NoData, trace |-> Append(t0, "open")]
    ELSE The({IF ds.name # a.varn
              THEN [exc |-> "KeyError", da |-> NoData, trace |-> Append(t0, "open")]
              ELSE [exc |-> "", da |-> ds.da, trace |-> Append(t0, "open")]
              : ds \in {IF a.regrid THEN Remapbil(fsys[a.infile]) ELSE fsys[a.infile]}})

\* faulty variant of selected_and_normalized: the units are normalized right after the
\* grid validation, before the selection
normalized_then_selected(fsys, a) ==
    LET c0 == {open_input(fsys, a)}
        c1 == {Step(c, "grid", check_grid(c.da)) : c \in c0}
        c2 == {Step(c, "units", normalize_units(c.da, a.varn)) : c \in c1}
        c3 == {Step(c, "time", select_time_period(c.da, a.time_period)) : c \in c2}
        c4 == {Step(c, "season", select_season(c.da, a.season)) : c \in c3}
        c5 == {Step(c, "region", select_region(c.da, a.region)) : c \in c4}
    IN  The({Step(c, "ocean", select_ocean_mask(c.da, a.mask_ocean)) : c \in c5})

\* lines 201-255: the steps between opening and reducing, in program order
selected_and_normalized(fsys, a) ==
    LET c0 == {open_input(fsys, a)}
        c1 == {Step(c, "grid", check_grid(c.da)) : c \in c0}
        c2 == {Step(c, "time", select_time_period(c.da, a.time_period)) : c \in c1}
        c3 == {Step(c, "season", select_season(c.da, a.season)) : c \in c2}
        c4 == {Step(c, "region", select_region(c.da, a.region)) : c \in c3}
        c5 == {Step(c, "ocean", select_ocean_mask(c.da, a.mask_ocean)) : c \in c4}
    IN  The({Step(c, "units", normalize_units(c.da, a.varn)) : c \in c5})

\* faulty variant of cache_hit: the overwrite flag is not looked at
cache_hit_ignoring_overwrite(fsys, a) ==
    ~IsNone(a.outfile) /\ Get(a.outfile) \in DOMAIN fsys

\* whether the call is answered from the persisted result (line 190)
cache_hit(fsys, a) ==
    ~a.overwrite /\ ~IsNone(a.outfile) /\ Get(a.outfile) \in DOMAIN fsys

\* ds.to_netcdf(path)
to_netcdf(fsys, path, ds) ==
    [p \in DOMAIN fsys \cup {path} |-> IF p = path THEN ds ELSE fsys[p]]

\* lines 257-290: the reduction of the selected array ctx.da, the Dataset made
\* of it, the optional write and the return
reduced_and_written(fsys, a, ctx) ==
    LET enc == fsys[a.infile].da.enc
        red == {reduce_time(ctx.da, ctx.da.attrs, a.time_aggregation)}
        ds == {[name |-> a.varn, da |-> [r.da EXCEPT !.attrs = r.attrs, !.enc = enc]] : r \in red}
    IN  The({IF IsNone(a.outfile)
             THEN [fs |-> fsys, exc |-> "", ret |-> Some(d),
                   trace |-> Append(ctx.trace, "reduce"), wrote |-> << >>]
             ELSE [fs |-> to_netcdf(fsys, Get(a.outfile), d), exc |-> "", ret |-> Some(d),
                   trace |-> ctx.trace \o <<"reduce", "write">>, wrote |-> <<Get(a.outfile)>>]
             : d \in ds})

calculate_basic_diagnostic(fsys, a) ==
    IF cache_hit(fsys, a)
    THEN [fs |-> fsys, exc |-> "", ret |-> Some(fsys[Get(a.outfile)]),
          trace |-> <<"cached">>, wrote |-> << >>]
    ELSE The({IF ctx.exc # ""
              THEN [fs |-> fsys, exc |-> ctx.exc, ret |-> None,
                    trace |-> ctx.trace, wrote |-> << >>]
              ELSE reduced_and_written(fsys, a, ctx)
              : ctx \in {selected_and_normalized(fsys, a)}})

-----------------------------------------------------------------------------
(* calculate_net_radiation: the result is [fs, exc, wrote].                 *)

long_name_rnet ==
    <<"S","u","r","f","a","c","e"," ","D","o","w","n","w","e","l","l","i","n","g"," ","N","e","t"," ","R","a","d","i","a","t","i","o","n">>
standard_name_rnet ==
    <<"s","u","r","f","a","c","e","_","d","o","w","n","w","e","l","l","i","n","g","_","n","e","t","_","f","l","u","x","_","i","n","_","a","i","r">>
fill_1e20 == <<"1","e","+","2","0">>

\* the variable varn of the file at path: [exc, da]
open_variable(fsys, path, varn) ==
    IF path \notin DOMAIN fsys THEN Fail("FileNotFoundError", NoData)
    ELSE IF fsys[path].name # varn THEN Fail("KeyError", NoData)
    ELSE Fine(fsys[path].da)

\* (x1 - x2) + (x3 - x4), missing when one of them is
NetOf(x1, x2, x3, x4) ==
    IF IsNaN(x1) \/ IsNaN(x2) \/ IsNaN(x3) \/ IsNaN(x4) THEN NaN
    ELSE <<(x1[1] - x2[1]) + (x3[1] - x4[1])>>

\* the timesteps all four arrays have, as indices of the first
CommonTimes(d1, d2, d3, d4) ==
    {i \in DOMAIN d1.time :
        \A d \in {d2, d3, d4} : \E k \in DOMAIN d.time : d.time[k] = d1.time[i]}

IndexOfTime(d, t) == CHOOSE k \in DOMAIN d.time : d.time[k] = t

\* lines 60-71: the net flux of the four arrays, its attributes, the write
net_radiation_written(fsys, da1, da2, da3, da4, outname, diagn) ==
    LET fill == IF "_FillValue" \in DOMAIN da1.attrs
                THEN da1.attrs["_FillValue"] ELSE fill_1e20
    IN  The({[fs |-> to_netcdf(fsys, outname, [name |-> diagn, da |->
                [da1 EXCEPT
                   !.time = [k \in DOMAIN ix |-> da1.time[ix[k]]],
                   !.val = [c \in Cells |-> [k \in DOMAIN ix |->
                       NetOf(da1.val[c][ix[k]],
                             da2.val[c][IndexOfTime(da2, da1.time[ix[k]])],
                             da3.val[c][IndexOfTime(da3, da1.time[ix[k]])],
                             da4.val[c][IndexOfTime(da4, da1.time[ix[k]])])]],
                   !.attrs = [k \in {"units", "_FillValue", "long_name", "standard_name"} |->
                       IF k = "units" THEN da1.attrs["units"]
                       ELSE IF k = "_FillValue" THEN fill
                       ELSE IF k = "long_name" THEN long_name_rnet
                       ELSE standard_name_rnet],
                   !.enc = ""]]),
              exc |-> "", wrote |-> <<outname>>]
             : ix \in {SortedSeq(CommonTimes(da1, da2, da3, da4))}})

\* varns is [astuple, names]: a tuple or a list of variable names
calculate_net_radiation(fsys, infile, varns, outname, diagn) ==
    IF ~(varns.astuple /\ varns.names = <<rlds, rlus, rsds, rsus>>)
    THEN [fs |-> fsys, exc |-> "AssertionError", wrote |-> << >>]
    ELSE
    LET v == varns.names IN
    The({LET bad == SelectSeq(<<o1.exc, o2.exc, o3.exc, o4.exc>>, LAMBDA e : e # "") IN
         IF bad # << >> THEN [fs |-> fsys, exc |-> bad[1], wrote |-> << >>]
         ELSE IF "units" \notin DOMAIN o1.da.attrs
         THEN [fs |-> fsys, exc |-> "AttributeError", wrote |-> << >>]
         ELSE net_radiation_written(fsys, o1.da, o2.da, o3.da, o4.da, outname, diagn)
         : o1 \in {open_variable(fsys, infile, v[1])},
           o2 \in {open_variable(fsys, Replace(infile, v[1], v[2]), v[2])},
           o3 \in {open_variable(fsys, Replace(infile, v[1], v[3]), v[3])},
           o4 \in {open_variable(fsys, Replace(infile, v[1], v[4]), v[4])}})

-----------------------------------------------------------------------------
(* calculate_diagnostic.  kw is the record of the keyword arguments passed  *)
(* on (time_period, season, time_aggregation, mask_ocean, region,           *)
(* overwrite, regrid; the caller gives every one).  diagn is                *)
(* [kind, name, varns]: kind "str" with the variable's name, kind "dict"    *)
(* with the single key and its value varns = [astuple, names], or another   *)
(* kind for an object that is neither.  The result is that of               *)
(* calculate_basic_diagnostic, with subs: the calls made to it, in order,   *)
(* each [a, hit, wrote].                                                    *)

\* '{}'.format(x) of a value that may be None
Format(o) == IF IsNone(o) THEN StrNone ELSE Get(o)

\* the name template of lines 323-325, filled in
outfile_name(infile, time_period, season, time_aggregation, region) ==
    Join(<<"_">>, << infile,
                     Str(time_period[1]) \o <<"-">> \o Str(time_period[2]),
                     Format(season),
                     Format(time_aggregation),
                     region \o dot_nc >>)

\* get_outfile(infile=infile, **kw): [exc, path]
get_outfile(base_path, infile, kw) ==
    IF IsNone(kw.time_period) THEN [exc |-> "TypeError", path |-> << >>]
    ELSE [exc |-> "",
          path |-> PathJoin(base_path,
              outfile_name(Replace(Basename(infile), dot_nc, << >>),
                           Get(kw.time_period), kw.season, kw.time_aggregation,
                           IF kw.region.isstr THEN kw.region.names[1]
                           ELSE Join(<<"-">>, kw.region.names)))]

\* the arguments of calculate_basic_diagnostic(infile, varn, outfile, **kw)
BasicArgs(infile, varn, outfile, kw) ==
    [infile |-> infile, varn |-> varn, outfile |-> Some(outfile),
     time_period |-> kw.time_period, season |-> kw.season,
     time_aggregation |-> kw.time_aggregation, mask_ocean |-> kw.mask_ocean,
     region |-> kw.region, overwrite |-> kw.overwrite, regrid |-> kw.regrid]

\* the record of one call of calculate_basic_diagnostic
SubCall(fsys, a, r) == [a |-> a, hit |-> cache_hit(fsys, a), wrote |-> r.wrote]

Outcome(fsys, exc, ret, trace, wrote, subs) ==
    [fs |-> fsys, exc |-> exc, ret |-> ret, trace |-> trace, wrote |-> wrote, subs |-> subs]

\* lines 331-333 and 345-346: the output path, then the pipeline
basic_branch(fsys, infile, varn, base_path, kw, trace, wrote) ==
    The({IF o.exc # "" THEN Outcome(fsys, o.exc, None, trace, wrote, << >>)
         ELSE The({The({Outcome(r.fs, r.exc, r.ret, trace \o r.trace, wrote \o r.wrote,
                                <<SubCall(fsys, a, r)>>)
                        : r \in {calculate_basic_diagnostic(fsys, a)}})
                   : a \in {BasicArgs(infile, varn, o.path, kw)}})
         : o \in {get_outfile(base_path, infile, kw)}})

\* lines 341-346
rnet_branch(fsys, infile, diagn, base_path, kw) ==
    IF diagn.varns.names = << >>
    THEN Outcome(fsys, "IndexError", None, << >>, << >>, << >>)
    ELSE
    The({The({IF n.exc # ""
              THEN Outcome(fsys, n.exc, None, <<"net_radiation">>, << >>, << >>)
              ELSE basic_branch(n.fs, tmpfile, diagn.name, base_path, kw,
                                <<"net_radiation">>, n.wrote)
              : n \in {calculate_net_radiation(fsys, infile, diagn.varns, tmpfile,
                                               diagn.name)}})
         : tmpfile \in {PathJoin(base_path,
                            Replace(Basename(infile), diagn.varns.names[1], diagn.name))}})

\* lines 355-358: the companion variable's input path
companion_infile(infile, varn1, varn2) ==
    LET fn == Replace(PathSplit(infile)[2], varn1 \o <<"_">>, varn2 \o <<"_">>)
        path == Replace(PathSplit(infile)[1] \o <<"/">>,
                        <<"/">> \o varn1 \o <<"/">>, <<"/">> \o varn2 \o <<"/">>)
    IN  PathJoin(path, fn)

\* line 363: the path the correlation is persisted under
correlation_outfile(outfile1, varn1, diagn) ==
    Replace(outfile1, <<"/">> \o varn1 \o <<"_">>, <<"/">> \o diagn \o <<"_">>)

\* xr.apply_ufunc(_corr, ...): the correlation over time, kept symbolically
\* as the pair of series it is taken of
Correlation(da1, da2) ==
    [da1 EXCEPT !.val = [c \in Cells |-> da1.val[c] \o da2.val[c]],
                !.time = << >>, !.stat = "CORR", !.attrs = NoAttrs, !.enc = ""]

\* lines 361-367: the correlation of the two results, persisted and returned
corr_written(fsys, diagn, outfile1, r1, r2, subs) ==
    LET v == diagn.varns.names
        tr == r1.trace \o r2.trace
        wr == r1.wrote \o r2.wrote
    IN
    IF Get(r1.ret).name # v[1] \/ Get(r2.ret).name # v[2]
    THEN Outcome(r2.fs, "KeyError", None, Append(tr, "corr"), wr, subs)
    ELSE The({Outcome(to_netcdf(r2.fs, outfile3, ds3), "", Some(ds3),
                      tr \o <<"corr", "write">>, Append(wr, outfile3), subs)
              : outfile3 \in {correlation_outfile(outfile1, v[1], diagn.name)},
                ds3 \in {[name |-> diagn.name,
                          da |-> [Correlation(Get(r1.ret).da, Get(r2.ret).da)
                                    EXCEPT !.attrs = SetItem(NoAttrs, "units", u_one)]]}})

\* lines 355-367: the companion variable's basic diagnostic, then the correlation
corr_second(fsys, infile, diagn, base_path, kw, outfile1, a1, r1) ==
    LET v == diagn.varns.names IN
    The({The({The({LET s2 == <<SubCall(fsys, a1, r1), SubCall(r1.fs, a2, r2)>> IN
                   IF r2.exc # ""
                   THEN Outcome(r2.fs, r2.exc, None, r1.trace \o r2.trace,
                                r1.wrote \o r2.wrote, s2)
                   ELSE corr_written(fsys, diagn, outfile1, r1, r2, s2)
                   : r2 \in {calculate_basic_diagnostic(r1.fs, a2)}})
              : a2 \in {BasicArgs(infile2, v[2], get_outfile(base_path, infile2, kw).path, kw)}})
         : infile2 \in {companion_infile(infile, v[1], v[2])}})

\* lines 347-367
corr_branch(fsys, infile, diagn, base_path, kw) ==
    LET v == diagn.varns.names IN
    IF Len(v) # 2 \/ v[1] = v[2]
    THEN Outcome(fsys, "AssertionError", None, << >>, << >>, << >>)
    ELSE
    The({IF o1.exc # "" THEN Outcome(fsys, o1.exc, None, << >>, << >>, << >>)
         ELSE The({The({IF r1.exc # ""
                        THEN Outcome(r1.fs, r1.exc, None, r1.trace, r1.wrote,
                                     <<SubCall(fsys, a1, r1)>>)
                        ELSE corr_second(fsys, infile, diagn, base_path, kw, o1.path, a1, r1)
                        : r1 \in {calculate_basic_diagnostic(fsys, a1)}})
                   : a1 \in {BasicArgs(infile, v[1], o1.path, kw)}})
         : o1 \in {get_outfile(base_path, infile, kw)}})

calculate_diagnostic(fsys, infile, diagn, base_path, kw) ==
    IF diagn.kind = "str"
    THEN basic_branch(fsys, infile, diagn.name, base_path, kw, << >>, << >>)
    ELSE IF diagn.kind = "dict"
    THEN IF diagn.name = rnet
         THEN rnet_branch(fsys, infile, diagn, base_path, kw)
         ELSE IF kw.time_aggregation = Some(CORR)
         THEN corr_branch(fsys, infile, diagn, base_path, kw)
         \* no branch is left: the function ends and returns None
         ELSE Outcome(fsys, "", None, << >>, << >>, << >>)
    ELSE Outcome(fsys, "", None, << >>, << >>, << >>)

-----------------------------------------------------------------------------
(* The input files the calls are made on.                                   *)

p_tas == <<"/","d","/","t","a","s","/","t","a","s","_","m",".","n","c">>
p_pr == <<"/","d","/","p","r","/","p","r","_","m",".","n","c">>
p_tas_flat == <<"/","d","/","t","a","s","/","m",".","n","c">>
p_pr_flat == <<"/","d","/","p","r","/","m",".","n","c">>
p_psl == <<"/","d","/","p","s","l","_","m",".","n","c">>
p_tos == <<"/","d","/","t","o","s","_","m",".","n","c">>
p_raw == <<"/","d","/","t","a","s","_","r","a","w",".","n","c">>
p_off == <<"/","d","/","t","a","s","_","o","f","f",".","n","c">>
p_F == <<"/","d","/","t","a","s","_","F",".","n","c">>
p_rlds == <<"/","d","/","r","l","d","s","_","m",".","n","c">>
p_rlus == <<"/","d","/","r","l","u","s","_","m",".","n","c">>
p_rsds == <<"/","d","/","r","s","d","s","_","m",".","n","c">>
p_rsus == <<"/","d","/","r","s","u","s","_","m",".","n","c">>
p_out == <<"/","o","u","t">>
p_out_a == <<"/","o","u","t","/","a",".","n","c">>
p_out_b == <<"/","o","u","t","/","b",".","n","c">>
u_F == <<"F">>
u_Pa == <<"P","a">>
u_Celsius == <<"C","e","l","s","i","u","s">>
u_percent == <<"%">>
XXX == <<"X","X","X">>
MEDIAN == <<"M","E","D","I","A","N">>
tascorr == <<"t","a","s","c","o","r","r">>
mystat == <<"m","y","s","t","a","t">>

TimeAxis ==
    << [year |-> 2000, month |-> 1], [year |-> 2000, month |-> 7],
       [year |-> 2001, month |-> 1], [year |-> 2001, month |-> 7] >>

Units(u) == SetItem(NoAttrs, "units", u)

\* a field on the given coordinates with the series val[c] at cell c
Field(attrs, lat, lon, val) ==
    [attrs |-> attrs, lat |-> lat, lon |-> lon, time |-> TimeAxis,
     box |-> <<1, NLat, 1, NLon>>, val |-> val, stat |-> "", enc |-> "f4"]

\* values in hundredths: about 283 K, 1013 hPa, 10 degC, 300 W m-2
Kelvin == [c \in Cells |-> [t \in DOMAIN TimeAxis |-> <<28315 + 100 * t + 10 * c[1] + c[2]>>]]
Hectopascal == [c \in Cells |-> [t \in DOMAIN TimeAxis |-> <<101300 + 100 * t + 10 * c[1] + c[2]>>]]
Rate == [c \in Cells |-> [t \in DOMAIN TimeAxis |-> <<t + c[1] + c[2]>>]]
SeaCelsius == [c \in Cells |-> [t \in DOMAIN TimeAxis |-> IF land_110(c) THEN NaN ELSE <<1000 + 100 * t + 10 * c[1] + c[2]>>]]
Flux == [c \in Cells |-> [t \in DOMAIN TimeAxis |-> <<30000 + 100 * t + 10 * c[1] + c[2]>>]]

\* coordinates that are not the fixed grid's: shifted by half a cell
ShiftedLat == [i \in 1..NLat |-> ExpectedLat[i] + 125]

InputFiles ==
    (p_tas :> [name |-> tas, da |-> Field(Units(u_K), ExpectedLat, ExpectedLon, Kelvin)])
    @@ (p_pr :> [name |-> pr, da |-> Field(Units(u_kg_m2_s1), ExpectedLat, ExpectedLon, Rate)])
    @@ (p_tas_flat :> [name |-> tas, da |-> Field(Units(u_K), ExpectedLat, ExpectedLon, Kelvin)])
    @@ (p_pr_flat :> [name |-> pr, da |-> Field(Units(u_mm), ExpectedLat, ExpectedLon, Rate)])
    @@ (p_psl :> [name |-> psl, da |-> Field(Units(u_hPa), ExpectedLat, ExpectedLon, Hectopascal)])
    @@ (p_tos :> [name |-> tos, da |-> Field(Units(u_degC), ExpectedLat, ExpectedLon, SeaCelsius)])
    @@ (p_raw :> [name |-> tas, da |-> Field(NoAttrs, ExpectedLat, ExpectedLon, Kelvin)])
    @@ (p_off :> [name |-> tas, da |-> Field(Units(u_K), ShiftedLat, ExpectedLon, Kelvin)])
    @@ (p_F :> [name |-> tas, da |-> Field(Units(u_F), ExpectedLat, ExpectedLon, Kelvin)])
    @@ (p_rlds :> [name |-> rlds, da |-> Field(Units(u_W_m_2), ExpectedLat, ExpectedLon, Flux)])
    @@ (p_rlus :> [name |-> rlus, da |-> Field(Units(u_W_m_2), ExpectedLat, ExpectedLon, Flux)])
    @@ (p_rsds :> [name |-> rsds, da |-> Field(Units(u_W_m_2), ExpectedLat, ExpectedLon, Flux)])
    @@ (p_rsus :> [name |-> rsus, da |-> Field(Units(u_W_m_2), ExpectedLat, ExpectedLon, Flux)])

Str1(s) == [isstr |-> TRUE, names |-> <<s>>]
List(l) == [isstr |-> FALSE, names |-> l]

-----------------------------------------------------------------------------
(* The state machine: calls of calculate_basic_diagnostic and of            *)
(* calculate_diagnostic on a file system that starts with the input files.  *)

\* the components a persisted result is requested by
KeyOf(a) ==
    [basic |-> TRUE, infile |-> a.infile, varn |-> a.varn, time_period |-> a.time_period,
     season |-> a.season, time_aggregation |-> a.time_aggregation,
     region |-> a.region, mask_ocean |-> a.mask_ocean]

\* the mark of a file written outside calculate_basic_diagnostic
DerivedKey ==
    [basic |-> FALSE, infile |-> << >>, varn |-> << >>, time_period |-> None,
     season |-> None, time_aggregation |-> None,
     region |-> [isstr |-> TRUE, names |-> << >>], mask_ocean |-> FALSE]

Range(s) == {s[i] : i \in DOMAIN s}

\* the positions in r.wrote of the writes of calculate_net_radiation (the
\* first) and of the correlation (the last)
DerivedWrites(r) ==
    {i \in DOMAIN r.wrote :
        \/ i = 1 /\ r.trace # << >> /\ r.trace[1] = "net_radiation"
        \/ i = Len(r.wrote) /\ "corr" \in Range(r.trace) /\ r.trace[Len(r.trace)] = "write"}

\* madeBy after the writes i.. of the outcome r
RECURSIVE Recorded(_, _, _)
Recorded(mb, r, i) ==
    IF i > Len(r.wrote) THEN mb
    ELSE LET writers == SelectSeq(r.subs, LAMBDA s : s.wrote # << >>)
             nth == Cardinality({k \in 1..i : k \notin DerivedWrites(r)})
             key == IF i \in DerivedWrites(r) THEN DerivedKey ELSE KeyOf(writers[nth].a)
         IN  Recorded(SetItem(mb, r.wrote[i], key), r, i + 1)

NoKw ==
    [time_period |-> None, season |-> None, time_aggregation |-> None,
     mask_ocean |-> FALSE, region |-> Str1(GLOBAL), overwrite |-> FALSE, regrid |-> FALSE]

NoDiagn == [kind |-> "", name |-> << >>, varns |-> [astuple |-> FALSE, names |-> << >>]]

NoRequest == [infile |-> << >>, diagn |-> NoDiagn, base_path |-> << >>, kw |-> NoKw]

NoArgs == [infile |-> << >>, varn |-> << >>, outfile |-> None,
           time_period |-> None, season |-> None, time_aggregation |-> None,
           mask_ocean |-> FALSE, region |-> Str1(GLOBAL), overwrite |-> FALSE,
           regrid |-> FALSE]

NoProbe == [fn |-> "", varn |-> << >>, region |-> List(<< >>), da |-> NoData,
            done |-> FALSE, exc |-> "", out |-> None]

\* the state before any call, with the input files at the given paths
InitWith(paths) ==
    /\ fs = [p \in paths |-> InputFiles[p]]
    /\ madeBy = [p \in {} |-> DerivedKey]
    /\ last = [op |-> "", a |-> NoArgs, d |-> NoRequest, exc |-> "", ret |-> None,
               trace |-> << >>, wrote |-> << >>, subs |-> << >>]
    /\ ncalls = 0

\* one call calculate_basic_diagnostic(**a), a drawn from Args
BasicCall(Args) ==
    /\ ncalls < MaxCalls
    /\ \E a \in Args :
        \E r \in {calculate_basic_diagnostic(fs, a)} :
            LET o == r @@ [subs |-> <<SubCall(fs, a, r)>>]
            IN  /\ fs' = r.fs
                /\ madeBy' = Recorded(madeBy, o, 1)
                /\ last' = [op |-> "basic", a |-> a, d |-> NoRequest, exc |-> r.exc,
                            ret |-> r.ret, trace |-> r.trace, wrote |-> r.wrote,
                            subs |-> o.subs]
    /\ ncalls' = ncalls + 1
    /\ UNCHANGED probe

\* one call calculate_diagnostic(infile, diagn, base_path, **kw), drawn from Requests
DiagCall(Requests) ==
    /\ ncalls < MaxCalls
    /\ \E d \in Requests :
        \E r \in {calculate_diagnostic(fs, d.infile, d.diagn, d.base_path, d.kw)} :
            /\ fs' = r.fs
            /\ madeBy' = Recorded(madeBy, r, 1)
            /\ last' = [op |-> "diag", a |-> NoArgs, d |-> d, exc |-> r.exc,
                        ret |-> r.ret, trace |-> r.trace, wrote |-> r.wrote,
                        subs |-> r.subs]
    /\ ncalls' = ncalls + 1
    /\ UNCHANGED probe

\* the arguments the pipeline is called with
PipelineArgs ==
    [infile : {p_tas, p_raw, p_F}, varn : {tas}, outfile : {None, Some(p_out_a)},
     time_period : {None}, season : {None, Some(JJA), Some(XXX)},
     time_aggregation : {Some(CLIM), Some(MEDIAN)},
     mask_ocean : BOOLEAN, region : {Str1(GLOBAL), Str1(seabox)},
     overwrite : {FALSE}, regrid : {FALSE}]

\* the arguments the cache is exercised with
CacheArgs ==
    [infile : {p_tas, p_off, p_F}, varn : {tas},
     outfile : {None, Some(p_out_a), Some(p_out_b)},
     time_period : {None}, season : {None}, time_aggregation : {None, Some(CLIM)},
     mask_ocean : {FALSE}, region : {Str1(GLOBAL)},
     overwrite : BOOLEAN, regrid : BOOLEAN]

Init == InitWith({p_tas, p_raw, p_F}) /\ probe = NoProbe

Next == BasicCall(PipelineArgs)

Spec == Init /\ [][Next]_vars

InitCache == InitWith({p_tas, p_off, p_F}) /\ probe = NoProbe

NextCache == BasicCall(CacheArgs)

SpecCache == InitCache /\ [][NextCache]_vars

-----------------------------------------------------------------------------
(* Properties of calculate_basic_diagnostic, checked under Spec (C1 under   *)
(* SpecCache).                                                              *)

\* the last call was of calculate_basic_diagnostic and ran the pipeline
FreshCall == last.op = "basic" /\ last.trace # <<"cached">>

\* the steps of the pipeline proper
PipelineSteps ==
    {"regrid", "open", "grid", "time", "season", "region", "ocean", "units", "reduce", "write"}

\* C1: a call with an output path holding a persisted result and overwrite not
\* set returns that result, runs no step of the pipeline and writes nothing;
\* with overwrite set the pipeline runs again and, when it completes, the file
\* is replaced by the new result.
C1_CachedResultReused ==
    [][ (last'.op = "basic" /\ ncalls' = ncalls + 1 /\ ~IsNone(last'.a.outfile)
             /\ Get(last'.a.outfile) \in DOMAIN fs)
        => LET a == last'.a
               out == Get(a.outfile)
           IN  /\ ~a.overwrite =>
                     /\ last'.exc = ""
                     /\ last'.ret = Some(fs[out])
                     /\ Range(last'.trace) \cap PipelineSteps = {}
                     /\ last'.wrote = << >>
                     /\ fs' = fs
               /\ a.overwrite =>
                     /\ "open" \in Range(last'.trace)
                     /\ last'.exc = "" =>
                           /\ "reduce" \in Range(last'.trace)
                           /\ last'.wrote = <<out>>
                           /\ fs'[out] = Get(last'.ret)
                     /\ last'.exc # "" => fs' = fs ]_vars

\* C1 witness: a second call, asking for a regrid, was answered from the result
\* the first persisted
C1_Witness ==
    /\ ncalls = 2 /\ last.op = "basic" /\ last.trace = <<"cached">>
    /\ ~last.a.overwrite /\ last.a.regrid /\ last.ret = Some(fs[Get(last.a.outfile)])

\* the position of a step in a trace, 0 when it did not begin
Pos(trace, step) ==
    IF step \in Range(trace) THEN CHOOSE i \in DOMAIN trace : trace[i] = step ELSE 0

\* s is a prefix of t
IsPrefix(s, t) == Len(s) <= Len(t) /\ SubSeq(t, 1, Len(s)) = s

\* the input of the last call carries a unit standardize_units rejects
UnsupportedUnitInput ==
    /\ last.a.infile \in DOMAIN InputFiles
    /\ standardize_units(InputFiles[last.a.infile].da, last.a.varn).exc = "ValueError"

UnsupportedSeason == last.a.season \notin {None, Some(ANN), Some(JJA), Some(SON), Some(DJF), Some(MAM)}

C3_MissingUnitIsSkipped ==
    (FreshCall /\ "units" \in Range(last.trace)
        /\ "units" \notin DOMAIN InputFiles[last.a.infile].da.attrs)
    => last.exc = "" /\ "reduce" \in Range(last.trace) /\ ~IsNone(last.ret)

AggregationKinds == {None, Some(CLIM), Some(STD), Some(TREND), Some(CYC), Some(CORR)}

\* C4: an aggregation kind outside the six known ones ends the call in a
\* failure, with no field returned and no file written
C4_UnknownAggregationFails ==
    (FreshCall /\ last.a.time_aggregation \notin AggregationKinds)
    => last.exc # "" /\ IsNone(last.ret) /\ last.wrote = << >>

\* a cell of the extent with a value at some timestep
HasData(da) ==
    \E c \in Cells : InBox(da, c) /\ \E t \in DOMAIN da.val[c] : ~IsNaN(da.val[c][t])

\* C7: the result of a fresh computation has at least one non-missing cell
C7_ResultHasData ==
    (FreshCall /\ last.exc = "") => HasData(Get(last.ret).da)

-----------------------------------------------------------------------------
(* Calls of calculate_diagnostic, checked under SpecDiag.                   *)

Bare(name) == [kind |-> "str", name |-> name, varns |-> [astuple |-> FALSE, names |-> << >>]]
Derived(name, astuple, names) ==
    [kind |-> "dict", name |-> name, varns |-> [astuple |-> astuple, names |-> names]]
\* a diagn that is neither a string nor a dict
Neither == [kind |-> "int", name |-> << >>, varns |-> [astuple |-> FALSE, names |-> << >>]]

DiagRequests ==
    [infile : {p_tas, p_tas_flat, p_rlds},
     diagn : {Bare(tas), Derived(tascorr, FALSE, <<tas, pr>>),
              Derived(rnet, TRUE, <<rlds, rlus, rsds, rsus>>),
              Derived(mystat, FALSE, <<tas>>), Neither},
     base_path : {p_out},
     kw : [time_period : {Some(<<2000, 2001>>)}, season : {None},
           time_aggregation : {Some(CORR), Some(CLIM)}, mask_ocean : BOOLEAN,
           region : {Str1(GLOBAL)}, overwrite : BOOLEAN, regrid : {FALSE}]]

InitDiag ==
    /\ InitWith({p_tas, p_pr, p_tas_flat, p_pr_flat, p_rlds, p_rlus, p_rsds, p_rsus})
    /\ probe = NoProbe

NextDiag == DiagCall(DiagRequests)

SpecDiag == InitDiag /\ [][NextDiag]_vars

\* C2: a call answered from a persisted result gets a result that was produced
\* for the same input file, variable, time window, season, aggregation kind,
\* region and mask-ocean flag
C2_CacheKeyedByAllComponents ==
    last.op = "diag" =>
        \A i \in DOMAIN last.subs :
            last.subs[i].hit =>
                madeBy[Get(last.subs[i].a.outfile)] = KeyOf(last.subs[i].a)

\* C5: a diagn that is neither a bare name, nor rnet, nor a pair of variables
\* with aggregation CORR ends in a failure
C5_UncoveredSpecFails ==
    (/\ last.op = "diag"
     /\ last.d.diagn.kind # "str"
     /\ ~(last.d.diagn.kind = "dict" /\ last.d.diagn.name = rnet)
     /\ ~(/\ last.d.diagn.kind = "dict"
          /\ last.d.kw.time_aggregation = Some(CORR)
          /\ Len(last.d.diagn.varns.names) = 2))
    => last.exc # ""

\* C10: in a correlation request the companion input path differs from the
\* first input path, the correlation is persisted under a path that is not
\* the output path of either basic diagnostic, and the first variable's field
\* is found in the result the first basic call returns
C10_CorrelationPathsDistinct ==
    (/\ last.op = "diag" /\ last.d.diagn.kind = "dict" /\ last.d.diagn.name # rnet
     /\ last.d.kw.time_aggregation = Some(CORR))
    => /\ Len(last.subs) = 2 =>
             /\ last.subs[2].a.infile # last.subs[1].a.infile
             /\ last.subs[2].a.outfile # last.subs[1].a.outfile
       /\ (last.exc = "" /\ last.wrote # << >>) =>
             last.wrote[Len(last.wrote)] \notin
                 {Get(last.subs[1].a.outfile), Get(last.subs[2].a.outfile)}
       /\ ~(last.exc = "KeyError" /\ last.trace[Len(last.trace)] = "corr")

-----------------------------------------------------------------------------
(* standardize_units on its own, checked under SpecUnits: every variable of *)
(* UnitVars with every unit of UnitSamples, and with no units attribute.    *)

UnitVars == {pr, tas, tasmax, tasmin, tos, psl, rsds, rsus, rlds, rlus, rnet, clt}

UnitSamples ==
    {u_kg_m2_s1, u_mm, u_mm_day, u_degC, u_K, u_Celsius, u_pa, u_Pa, u_hPa,
     u_W_m2, u_W_m_2, u_F, u_percent}

InitUnits ==
    /\ InitWith({})
    /\ \E v \in UnitVars, attrs \in {Units(u) : u \in UnitSamples} \cup {NoAttrs} :
          probe = [NoProbe EXCEPT !.fn = "units", !.varn = v,
                       !.da = Field(attrs, ExpectedLat, ExpectedLon, Rate)]

\* standardize_units(probe.da, probe.varn)
ApplyUnits ==
    /\ probe.fn = "units" /\ ~probe.done
    /\ LET r == standardize_units(probe.da, probe.varn)
       IN  probe' = [probe EXCEPT !.done = TRUE, !.exc = r.exc, !.out = r.ret]
    /\ UNCHANGED <<fs, madeBy, last, ncalls>>

SpecUnits == InitUnits /\ [][ApplyUnits]_vars

\* the unit rules as the specification gives them: the variables of a rule,
\* its canonical unit, its accepted source units and the conversion of each
HasRule(v) == v \in {pr, tas, tasmax, tasmin, tos, psl, rsds, rsus, rlds, rlus, rnet}

Canonical(v) ==
    IF v = pr THEN u_mm_day
    ELSE IF v \in {tas, tasmax, tasmin, tos} THEN u_degC
    ELSE IF v = psl THEN u_pa
    ELSE u_W_m2

Accepted(v) ==
    IF v = pr THEN {u_kg_m2_s1, u_mm, u_mm_day}
    ELSE IF v \in {tas, tasmax, tasmin, tos} THEN {u_degC, u_K, u_Celsius}
    ELSE IF v = psl THEN {u_pa, u_hPa}
    ELSE {u_W_m2, u_W_m_2}

Converted(v, u, x) ==
    IF v = pr /\ u = u_kg_m2_s1 THEN x * 86400
    ELSE IF u = u_K THEN x - 27315
    ELSE IF v = psl /\ u = u_hPa THEN x * 100
    ELSE x

\* C6: for a variable with a unit rule and an accepted source unit the
\* normalizer succeeds, converts the values and stamps the canonical unit (so
\* psl in hPa is multiplied by 100 and stamped as pascal); it raises only for
\* a unit that is neither canonical nor an accepted alias
C6_AcceptedUnitsAreConverted ==
    (probe.fn = "units" /\ probe.done /\ HasRule(probe.varn)
        /\ "units" \in DOMAIN probe.da.attrs)
    => LET u == probe.da.attrs["units"] IN
       /\ u \in Accepted(probe.varn) =>
             /\ probe.exc = "" /\ ~IsNone(probe.out)
             /\ Get(probe.out).attrs["units"] = Canonical(probe.varn)
             /\ \A c \in Cells : \A t \in DOMAIN probe.da.val[c] :
                   Get(probe.out).val[c][t] = <<Converted(probe.varn, u, probe.da.val[c][t][1])>>
       /\ probe.exc = "ValueError" => u \notin Accepted(probe.varn)

-----------------------------------------------------------------------------
(* The region selection on its own for lists of SREX names, checked under   *)
(* SpecRegion.                                                              *)

\* the lists of 1..MaxNames names of the catalog
RECURSIVE NameLists(_)
NameLists(n) ==
    IF n = 0 THEN {<< >>}
    ELSE LET shorter == NameLists(n - 1)
         IN  shorter \cup {Append(l, x) : l \in {k \in shorter : Len(k) = n - 1},
                                         x \in DOMAIN srex_region_ids}

InitRegion ==
    /\ InitWith({})
    /\ \E l \in NameLists(MaxNames) \ {<< >>}, p \in {p_tas, p_tos} :
          probe = [NoProbe EXCEPT !.fn = "region", !.region = List(l),
                       !.da = InputFiles[p].da]

\* lines 214-248 for probe.region on probe.da
ApplyRegion ==
    /\ probe.fn = "region" /\ ~probe.done
    /\ LET r == select_region(probe.da, probe.region)
       IN  probe' = [probe EXCEPT !.done = TRUE, !.exc = r.exc,
                         !.out = IF r.exc = "" THEN Some(r.da) ELSE None]
    /\ UNCHANGED <<fs, madeBy, last, ncalls>>

SpecRegion == InitRegion /\ [][ApplyRegion]_vars

\* the cells of the extent that are not missing at timestep t
Kept(da, t) == {c \in Cells : InBox(da, c) /\ ~IsNaN(da.val[c][t])}

\* the cells a named region covers, by the catalog
CoveredBy(name) == {c \in Cells : srex_mask(c) = srex_region_ids[name]}

\* the cells lying in exactly one of the regions the names stand for
InExactlyOne(names) ==
    {c \in Cells :
        Cardinality({k \in {srex_region_ids[names[i]] : i \in DOMAIN names} :
                        srex_mask(c) = k}) = 1}

\* the cells the selection of the single region name keeps
KeptAlone(da, name, t) ==
    LET r == select_region(da, List(<<name>>))
    IN  IF r.exc = "" THEN Kept(r.da, t) ELSE {}

\* C9: after the selection of a list of named regions a cell is kept iff it
\* lies in exactly one of the requested regions (and had a value); the cells
\* kept are those the regions would keep one by one; a selection that keeps
\* no cell of the first timestep fails.  A region may be named more than once.
C9_KeptIffInOneRegion ==
    (probe.fn = "region" /\ probe.done)
    => LET names == probe.region.names
           want(t) == {c \in InExactlyOne(names) : ~IsNaN(probe.da.val[c][t])}
       IN  IF probe.exc = ""
           THEN \A t \in DOMAIN probe.da.time :
                   /\ Kept(Get(probe.out), t) = want(t)
                   /\ Kept(Get(probe.out), t) =
                         UNION {KeptAlone(probe.da, names[i], t) : i \in DOMAIN names}
           ELSE probe.exc = "ValueError" /\ want(1) = {}

\* C9 witness: a list naming one region twice was selected and kept its cells
C9_Witness ==
    /\ probe.fn = "region" /\ probe.done /\ probe.exc = ""
    /\ Len(probe.region.names) = 2 /\ probe.region.names[1] = probe.region.names[2]
    /\ Kept(Get(probe.out), 1) = CoveredBy(probe.region.names[1])
    /\ Kept(Get(probe.out), 1) # {}

=============================================================================
